---------------------------- MODULE Spec2Model ----------------------------
(***************************************************************************)
(* The dual-pane file manager of src/file_mgmt4.py: two Pane objects, each *)
(* with a directory, a listbox and a progress bar, and the Copy / Move     *)
(* engine of DualPaneFileManager that transfers the selection of one       *)
(* pane into the directory of the other one, file by file, in chunks.      *)
(*                                                                         *)
(* A string is a sequence of one-character strings, a path is a sequence   *)
(* of names (the root "/" is the empty path), a file's content is a        *)
(* sequence of bytes.  The file system is a function from the existing     *)
(* paths to their node: a directory, a regular file or a symbolic link.    *)
(*                                                                         *)
(* Spec is the operator setting the panes up and running one Copy or Move  *)
(* while other programs work on the same files; SpecSession is a session   *)
(* of several Copy/Move clicks on panes that are set up, with the timers   *)
(* of the panes firing; SpecParse is the operator listing a directory by   *)
(* List All or By Size, selecting rows and asking for the selected paths.  *)
(***************************************************************************)
EXTENDS Integers, Sequences, FiniteSets, TLC

VARIABLES
    fs,            \* existing path -> [kind, data, locked]
    directory,     \* Pane.directory, per pane (None when unset)
    listbox,       \* the rows of Pane.listbox, per pane
    curselection,  \* the selected row indices of Pane.listbox, per pane
    current_items, \* Pane.current_items, per pane
    row_names,     \* the entry name each row of Pane.listbox was made from
    progress,      \* Pane.progress: [value |-> <<num, den>>, maximum |-> n]
    endflash,      \* panes with a pending _end_flash timer (flash_success)
    pc,            \* where the Copy/Move handler stands
    mode,          \* "copy" or "move": the handler that is running
    srcPane,       \* the acting pane of the running handler
    files,         \* its local `files` (get_selected_paths)
    all_files,     \* its local `all_files` (_collect_all_files)
    idx,           \* its loop index i (1-based)
    src_f,         \* bytes still to be read through the open source handle
    dst_path,      \* the destination path of the file being copied
    copied,        \* _copy_with_progress: copied
    total_size,    \* _copy_with_progress: total_size
    targets,       \* the destination path computed for each plan entry so far
    fs0,           \* the file system as it was when the handler started
    completed,     \* plan indices whose loop iteration ended without error
    failed,        \* plan indices whose copy or removal raised an error
    outcome,       \* how the last handler ended
    started,       \* a Copy/Move has passed its precondition
    external,      \* changes made so far by other programs
    refreshed,     \* list_contents calls the running handler made, per pane
    shown,         \* error dialogs the running handler has shown
    log,           \* the Copy/Move runs that ended, in order
    auto_refresh_enabled, \* Pane.auto_refresh_enabled, per pane
    queue,         \* Copy/Move button clicks Tk has not dispatched yet
    clicked        \* Copy/Move button clicks made so far

vars == <<fs, directory, listbox, curselection, current_items, row_names, progress,
          endflash, pc, mode, srcPane, files, all_files, idx, src_f,
          dst_path, copied, total_size, targets, fs0, completed, failed,
          outcome,
          started, external, refreshed, shown, log, auto_refresh_enabled,
          queue, clicked>>

\* Pane.directory of a pane without directory: a path no directory has
None == << <<>> >>

-----------------------------------------------------------------------------
(* Bounds of the model *)

\* the 1 MiB block of _copy_with_progress, scaled to the model's file sizes
chunk_size == 2

\* changes made to the file system by other programs during one behaviour
MaxExternal == 1

\* Copy/Move button clicks of one session
MaxClicks == 2

-----------------------------------------------------------------------------
(* Generic helpers *)

Max(a, b) == IF a >= b THEN a ELSE b
Min(a, b) == IF a <= b THEN a ELSE b

RECURSIVE Gcd(_, _)
Gcd(a, b) == IF b = 0 THEN a ELSE Gcd(b, a % b)

\* rationals n/d, d > 0, kept in lowest terms: Python's float arithmetic on
\* the progress value, exact on the values the model produces
Rat(n, d) == LET g == Gcd(IF n < 0 THEN -n ELSE n, d)
             IN  IF n = 0 THEN <<0, 1>> ELSE <<n \div g, d \div g>>
RatLe(x, y) == x[1] * y[2] <= y[1] * x[2]
RatLt(x, y) == x[1] * y[2] < y[1] * x[2]
RatMin(x, y) == IF RatLe(x, y) THEN x ELSE y
RatMax(x, y) == IF RatLe(x, y) THEN y ELSE x
RatInt(n) == <<n, 1>>

Front(s) == SubSeq(s, 1, Len(s) - 1)
Last(s) == s[Len(s)]
IsPrefix(p, q) == Len(p) <= Len(q) /\ SubSeq(q, 1, Len(p)) = p

RECURSIVE Flatten(_)
Flatten(ss) == IF ss = <<>> THEN <<>> ELSE Head(ss) \o Flatten(Tail(ss))

Range(s) == {s[i] : i \in DOMAIN s}

-----------------------------------------------------------------------------
(* Strings: Python's str operations used by the listing and its parsing *)

\* the characters of the model in ASCII order; Ord is the code point order
Alphabet == <<" ", "-", "/", "0", "1", "2", "3", "4", "5", "6", "7", "8", "9",
              "a", "b", "d", "e", "m", "o", "p", "r", "s", "t", "u", "y">>
Ord(c) == CHOOSE i \in DOMAIN Alphabet : Alphabet[i] = c

RECURSIVE StrLt(_, _)
\* s < t for Python strings (lexicographic by code point)
StrLt(s, t) ==
    IF t = <<>> THEN FALSE
    ELSE IF s = <<>> THEN TRUE
    ELSE IF Head(s) # Head(t) THEN Ord(Head(s)) < Ord(Head(t))
    ELSE StrLt(Tail(s), Tail(t))

RECURSIVE SortedStrs(_)
\* sorted(S, key=str.lower) of a set of distinct lower-case strings
SortedStrs(S) ==
    IF S = {} THEN <<>>
    ELSE LET m == CHOOSE x \in S : \A y \in S \ {x} : StrLt(x, y)
         IN  <<m>> \o SortedStrs(S \ {m})

StartsWith(s, t) == IsPrefix(t, s)
EndsWith(s, t) == Len(t) <= Len(s) /\ SubSeq(s, Len(s) - Len(t) + 1, Len(s)) = t

\* `t in s`
Contains(s, t) == \E i \in 1..(Len(s) - Len(t) + 1) : SubSeq(s, i, i + Len(t) - 1) = t

RECURSIVE RStrip(_, _)
\* s.rstrip(c) for a single character c
RStrip(s, c) == IF s # <<>> /\ Last(s) = c THEN RStrip(Front(s), c) ELSE s

RECURSIVE LStrip(_, _)
LStrip(s, c) == IF s # <<>> /\ Head(s) = c THEN LStrip(Tail(s), c) ELSE s

\* s.strip(): the model's only whitespace character is the space
Strip(s) == LStrip(RStrip(s, " "), " ")

RECURSIVE SplitFrom(_, _, _)
\* s.split(sep): the pieces between the occurrences of sep found left to
\* right without overlap; cur is the piece collected so far
SplitFrom(s, sep, cur) ==
    IF s = <<>> THEN <<cur>>
    ELSE IF StartsWith(s, sep)
         THEN <<cur>> \o SplitFrom(SubSeq(s, Len(sep) + 1, Len(s)), sep, <<>>)
         ELSE SplitFrom(Tail(s), sep, Append(cur, Head(s)))
Split(s, sep) == SplitFrom(s, sep, <<>>)

RECURSIVE Join(_, _)
\* sep.join(parts)
Join(sep, parts) ==
    IF parts = <<>> THEN <<>>
    ELSE IF Len(parts) = 1 THEN parts[1]
    ELSE parts[1] \o sep \o Join(sep, Tail(parts))

RECURSIVE Decimal(_)
\* str(n) for n >= 0
Decimal(n) ==
    LET d == <<Alphabet[4 + (n % 10)]>>
    IN  IF n < 10 THEN d ELSE Decimal(n \div 10) \o d

SizeSep == <<" ", "-", " ">>
BytesWord == <<"b", "y", "t", "e", "s">>
Slash == "/"

\* Pane._parse_entry_to_name
parse_entry_to_name(entry) ==
    LET name == RStrip(entry, Slash)
        parts == Split(name, SizeSep)
    IN  IF Contains(name, SizeSep) /\ EndsWith(Strip(Last(parts)), BytesWord)
        THEN Join(SizeSep, Front(parts))
        ELSE name

-----------------------------------------------------------------------------
(* The file system: pathlib / os as the program uses them *)

n_src == <<"s", "r", "c">>
n_dst == <<"d", "s", "t">>
n_rpt == <<"r", "p", "t">>
n_memo == <<"m", "e", "m", "o">>
n_data == <<"d", "a", "t", "a">>
n_sub == <<"s", "u", "b">>
n_a == <<"a">>
n_b == <<"b">>
n_empty == <<"e", "m", "p", "t", "y">>
n_to == <<"t", "o">>

Root == <<>>
P_src == <<n_src>>
P_dst == <<n_dst>>

File(bytes, lck) == [kind |-> "file", data |-> bytes, locked |-> lck]
Dir == [kind |-> "dir", data |-> <<>>, locked |-> FALSE]
\* a symbolic link to the path target
Link(target) == [kind |-> "link", data |-> target, locked |-> FALSE]

\* the tree the operator starts from: /src holds two files, a folder with
\* an empty file and a nested folder, and a folder without anything in it,
\* /dst is empty; memoLocked says whether /src/memo can be unlinked
InitTree(memoLocked) ==
    (Root :> Dir) @@ (P_src :> Dir) @@ (P_dst :> Dir) @@
    (<<n_src, n_empty>> :> Dir) @@
    (<<n_src, n_rpt>> :> File(<<1, 2, 3>>, FALSE)) @@
    (<<n_src, n_memo>> :> File(<<4>>, memoLocked)) @@
    (<<n_src, n_data>> :> Dir) @@
    (<<n_src, n_data, n_a>> :> File(<<>>, FALSE)) @@
    (<<n_src, n_data, n_sub>> :> Dir) @@
    (<<n_src, n_data, n_sub, n_b>> :> File(<<5, 6>>, FALSE))

\* the directories the operator picks in the directory chooser
PaneDirs == {P_src, P_dst}

\* the same tree with /src/data/to, a symbolic link to the file /src/rpt
LinkTree ==
    (<<n_src, n_data, n_to>> :> Link(<<n_src, n_rpt>>)) @@ InitTree(FALSE)

\* the same tree with the file /src/a, which has the base name of /src/data/a
TwinTree ==
    (<<n_src, n_a>> :> File(<<7>>, FALSE)) @@ InitTree(FALSE)

\* the name "rpt - 3 bytes"
n_sized == n_rpt \o SizeSep \o Decimal(3) \o <<" ">> \o BytesWord

\* the same tree with the file "/src/rpt - 3 bytes"
SizedTree ==
    (<<n_src, n_sized>> :> File(<<8, 9>>, FALSE)) @@ InitTree(FALSE)

\* the path the system calls that follow symbolic links work on (a link of
\* the model's trees never points at another link)
follow(f, p) == IF p \in DOMAIN f /\ f[p].kind = "link" THEN f[p].data ELSE p

\* os.path.islink, and DirEntry.is_dir(follow_symlinks=False)
is_link(f, p) == p \in DOMAIN f /\ f[p].kind = "link"
is_dir_nofollow(f, p) == p \in DOMAIN f /\ f[p].kind = "dir"

\* Path.exists / is_file / is_dir on a file system f (they follow links)
exists(f, p) == follow(f, p) \in DOMAIN f
is_file(f, p) == exists(f, p) /\ f[follow(f, p)].kind = "file"
is_dir(f, p) == exists(f, p) /\ f[follow(f, p)].kind = "dir"

\* Path.parent, Path.name, Path.relative_to, the / operator
parent(p) == IF p = <<>> THEN p ELSE Front(p)
name(p) == Last(p)
relative_to(p, base) == SubSeq(p, Len(base) + 1, Len(p))
joinpath(d, rel) == d \o rel

\* the names os.scandir(d) yields
scandir(f, d) == {name(p) : p \in {q \in DOMAIN f : q # <<>> /\ parent(q) = d}}

\* os.path.getsize
getsize(f, p) == Len(f[follow(f, p)].data)

RECURSIVE walk(_, _)
\* the files os.walk(top) reaches, in its top-down order: the files of a
\* directory, then each sub-directory in turn (a directory's entries in name
\* order, the order of the model's scandir). os.walk sorts an entry by
\* DirEntry.is_dir(), which follows links: a link to a file, or a broken
\* one, is among the files; a link to a directory is not walked into
walk(f, top) ==
    LET names == SortedStrs(scandir(f, top))
        fileNames == SelectSeq(names, LAMBDA n : ~is_dir(f, Append(top, n)))
        dirNames == SelectSeq(names, LAMBDA n : /\ is_dir(f, Append(top, n))
                                                /\ ~is_link(f, Append(top, n)))
    IN  [i \in 1..Len(fileNames) |-> Append(top, fileNames[i])]
        \o Flatten([i \in 1..Len(dirNames) |-> walk(f, Append(top, dirNames[i]))])

\* _collect_all_files without its is_file branch
collect_all_files_dirs_only(f, paths) ==
    Flatten([i \in 1..Len(paths) |->
                IF is_dir(f, paths[i]) THEN walk(f, paths[i]) ELSE <<>>])

\* _collect_all_files that takes a selected directory for an entry as well
collect_all_files_and_dirs(f, paths) ==
    Flatten([i \in 1..Len(paths) |->
                IF is_file(f, paths[i]) THEN <<paths[i]>>
                ELSE IF is_dir(f, paths[i]) THEN <<paths[i]>> \o walk(f, paths[i])
                ELSE <<>>])

\* DualPaneFileManager._collect_all_files
collect_all_files(f, paths) ==
    Flatten([i \in 1..Len(paths) |->
                IF is_file(f, paths[i]) THEN <<paths[i]>>
                ELSE IF is_dir(f, paths[i]) THEN walk(f, paths[i])
                ELSE <<>>])

\* the proper prefixes of d, d included: the directories mkdir(parents=True) needs
Ancestors(d) == {SubSeq(d, 1, k) : k \in 0..Len(d)}

\* Path.mkdir(parents=True, exist_ok=True) raises when the path or one of its
\* parents exists and is not a directory
mkdir_raises(f, d) == \E a \in Ancestors(d) : exists(f, a) /\ ~is_dir(f, a)
\* a mkdir that creates nothing
mkdir_nothing(f, d) == f

mkdir_parents(f, d) ==
    [p \in DOMAIN f \cup Ancestors(d) |-> IF p \in DOMAIN f THEN f[p] ELSE Dir]

\* open(p, "rb") raises when p is missing or a directory
open_rb_raises(f, p) == ~is_file(f, p)
\* open(p, "wb") raises when p is a directory or its parent is missing
open_wb_raises(f, p) == is_dir(f, p) \/ ~is_dir(f, parent(follow(f, p)))
\* an open for writing that creates and truncates nothing
open_wb_nothing(f, p) == f

\* open(p, "wb"): p is created empty, or truncated when it exists
open_wb(f, p) ==
    IF exists(f, p) THEN [f EXCEPT ![follow(f, p)].data = <<>>]
    ELSE (follow(f, p) :> File(<<>>, FALSE)) @@ f

\* what src_f.read() has to return after open(p, "rb")
read_bytes(f, p) == f[follow(f, p)].data

\* dst_f.write(buf)
write(f, p, buf) ==
    IF is_file(f, p) THEN [f EXCEPT ![follow(f, p)].data = @ \o buf] ELSE f

\* Path.unlink raises when p is missing, a directory, or cannot be removed;
\* it removes a link, not what the link points at
unlink_raises(f, p) == p \notin DOMAIN f \/ f[p].kind = "dir" \/ f[p].locked
\* a removal that takes the file's directory along when nothing else is in it
unlink_and_rmdir(f, p) ==
    LET gone == IF \A q \in DOMAIN f : (q # <<>> /\ parent(q) = parent(p)) => q = p
                THEN {p, parent(p)} ELSE {p}
    IN  [q \in DOMAIN f \ gone |-> f[q]]

\* a removal that takes the other files of the file's directory along
unlink_with_siblings(f, p) ==
    [q \in {r \in DOMAIN f : r = <<>> \/ parent(r) # parent(p) \/ f[r].kind = "dir"} |-> f[q]]

unlink(f, p) == [q \in DOMAIN f \ {p} |-> f[q]]

-----------------------------------------------------------------------------
(* Pane *)

Panes == {"left", "right"}

\* maximum of a ttk.Progressbar created without one
DefaultMaximum == 100

\* _set_progress without the clamp of the value to the maximum
set_progress_unclamped(value, maximum) ==
    [value |-> RatMax(RatInt(0), value), maximum |-> Max(1, maximum)]

\* Pane._set_progress: the bar after the call
set_progress(value, maximum) ==
    LET m == Max(1, maximum)
    IN  [value |-> RatMax(RatInt(0), RatMin(value, RatInt(m))), maximum |-> m]

\* Pane._reset_progress
reset_progress(bar) == set_progress(RatInt(0), bar.maximum)

\* the rows Pane.list_all builds: folders first, marked with "/", then the
\* other entries, each group sorted
list_all_items(f, d) ==
    IF ~is_dir(f, d) THEN <<>>
    ELSE LET names == scandir(f, d)
             dirs == {Append(n, Slash) :
                         n \in {x \in names : is_dir_nofollow(f, Append(d, x))}}
             others == {n \in names : ~is_dir_nofollow(f, Append(d, n))}
         IN  SortedStrs(dirs) \o SortedStrs(others)

\* the entry names behind the rows of Pane.list_all, row by row
list_all_names(f, d) ==
    LET rows == list_all_items(f, d)
        ndirs == Cardinality({x \in scandir(f, d) : is_dir_nofollow(f, Append(d, x))})
    IN  [i \in 1..Len(rows) |-> IF i <= ndirs THEN Front(rows[i]) ELSE rows[i]]

RECURSIVE SortedBySize(_, _, _)
\* files.sort(key=lambda x: x.stat().st_size) of the names S in the
\* directory d (names of equal size: in name order, where Python keeps the
\* order of iterdir)
SortedBySize(f, d, S) ==
    IF S = {} THEN <<>>
    ELSE LET m == CHOOSE x \in S : \A y \in S \ {x} :
                     \/ getsize(f, Append(d, x)) < getsize(f, Append(d, y))
                     \/ /\ getsize(f, Append(d, x)) = getsize(f, Append(d, y))
                        /\ StrLt(x, y)
         IN  <<m>> \o SortedBySize(f, d, S \ {m})

\* the entry names behind the rows of Pane.sort_files_size: the files of d
sort_files_size_names(f, d) ==
    IF ~is_dir(f, d) THEN <<>>
    ELSE SortedBySize(f, d, {n \in scandir(f, d) : is_file(f, Append(d, n))})

\* the rows Pane.sort_files_size builds: f"{f.name} - {size} bytes"
sort_files_size_items(f, d) ==
    LET names == sort_files_size_names(f, d)
    IN  [i \in 1..Len(names) |->
            names[i] \o SizeSep \o Decimal(getsize(f, Append(d, names[i])))
                     \o <<" ">> \o BytesWord]

\* the bar after Pane.update_list_with_progress(items): set to 0, stepped to
\* each row in turn, then reset
progress_after_listing(items) ==
    LET total == Max(1, Len(items))
        RECURSIVE step(_, _)
        step(bar, i) == IF i > Len(items) THEN bar
                        ELSE step(set_progress(RatInt(i), total), i + 1)
    IN  reset_progress(step(set_progress(RatInt(0), total), 1))

\* the indices of a selection in the order Listbox.curselection returns them
RECURSIVE Ascending(_)
Ascending(S) ==
    IF S = {} THEN <<>>
    ELSE LET m == CHOOSE x \in S : \A y \in S : x <= y
         IN  <<m>> \o Ascending(S \ {m})

\* Pane.get_selected_paths
get_selected_paths(f, dir, rows, sel) ==
    IF dir = None THEN <<>>
    ELSE LET order == Ascending(sel)
             paths == [i \in 1..Len(order) |->
                          Append(dir, parse_entry_to_name(rows[order[i]]))]
         IN  SelectSeq(paths, LAMBDA q : exists(f, q))

\* DualPaneFileManager.get_opposite
get_opposite(pane) == IF pane = "left" THEN "right" ELSE "left"

-----------------------------------------------------------------------------
(* The state after construction *)

Init ==
    /\ fs \in {InitTree(FALSE), InitTree(TRUE)}
    /\ directory = [p \in Panes |-> None]
    /\ listbox = [p \in Panes |-> <<>>]
    /\ curselection = [p \in Panes |-> {}]
    /\ current_items = [p \in Panes |-> <<>>]
    /\ row_names = [p \in Panes |-> <<>>]
    /\ progress = [p \in Panes |-> [value |-> RatInt(0), maximum |-> DefaultMaximum]]
    /\ endflash = {}
    /\ pc = "idle"
    /\ mode = "none"
    /\ srcPane = "none"
    /\ files = <<>>
    /\ all_files = <<>>
    /\ idx = 0
    /\ src_f = <<>>
    /\ dst_path = <<>>
    /\ copied = 0
    /\ total_size = 0
    /\ targets = <<>>
    /\ fs0 = fs
    /\ completed = {}
    /\ failed = {}
    /\ outcome = "none"
    /\ started = FALSE
    /\ external = 0
    /\ refreshed = [p \in Panes |-> 0]
    /\ shown = 0
    /\ log = <<>>
    /\ auto_refresh_enabled = [p \in Panes |-> FALSE]
    /\ queue = <<>>
    /\ clicked = 0

handlerVars == <<pc, mode, srcPane, files, all_files, idx, src_f, dst_path,
                 copied, total_size, targets, fs0, completed, failed, outcome,
                 started, refreshed, shown, log>>

\* the event queue and the auto-refresh check boxes
sessionVars == <<auto_refresh_enabled, queue, clicked>>

-----------------------------------------------------------------------------
(* The operator's actions on one pane. They run when no handler is running;
   a behaviour is the operator setting the panes up, then one Copy or Move *)

\* the panes' widgets st = [lb, sel, items, names, bars] after Pane.list_contents
\* (list_all, update_list_with_progress) of a pane showing dir
list_contents(st, pane, dir, f) ==
    IF dir = None THEN st
    ELSE LET rows == list_all_items(f, dir)
         IN  [lb |-> [st.lb EXCEPT ![pane] = rows],
              sel |-> [st.sel EXCEPT ![pane] = {}],
              items |-> [st.items EXCEPT ![pane] = rows],
              names |-> [st.names EXCEPT ![pane] = list_all_names(f, dir)],
              bars |-> [st.bars EXCEPT ![pane] = progress_after_listing(rows)]]

Widgets == [lb |-> listbox, sel |-> curselection, items |-> current_items,
            names |-> row_names, bars |-> progress]

SetWidgets(st) ==
    /\ listbox' = st.lb
    /\ curselection' = st.sel
    /\ current_items' = st.items
    /\ row_names' = st.names
    /\ progress' = st.bars

\* Pane.ask_directory: the operator picks the existing directory d
ask_directory(pane, d) ==
    /\ pc = "idle"
    /\ ~started
    /\ is_dir(fs, d)
    /\ directory' = [directory EXCEPT ![pane] = d]
    /\ SetWidgets(list_contents(Widgets, pane, d, fs))
    /\ UNCHANGED <<fs, endflash, external>>
    /\ UNCHANGED handlerVars
    /\ UNCHANGED sessionVars

\* the operator selects the rows sel of the pane's listbox (selectmode extended)
Select(pane, sel) ==
    /\ pc = "idle"
    /\ ~started
    /\ sel \subseteq DOMAIN listbox[pane]
    /\ sel # curselection[pane]
    /\ curselection' = [curselection EXCEPT ![pane] = sel]
    /\ UNCHANGED <<fs, directory, listbox, current_items, row_names, progress, endflash, external>>
    /\ UNCHANGED handlerVars
    /\ UNCHANGED sessionVars

\* Pane.clear_pane
clear_pane(pane) ==
    /\ pc = "idle"
    /\ ~started
    /\ directory[pane] # None
    /\ directory' = [directory EXCEPT ![pane] = None]
    /\ listbox' = [listbox EXCEPT ![pane] = <<>>]
    /\ curselection' = [curselection EXCEPT ![pane] = {}]
    /\ row_names' = [row_names EXCEPT ![pane] = <<>>]
    /\ UNCHANGED <<fs, current_items, progress, endflash, external>>
    /\ UNCHANGED handlerVars
    /\ UNCHANGED sessionVars

\* the event loop of Tk runs: no handler is running, or the running one
\* waits in a modal dialog, whose own event loop serves the timers
event_loop_runs == pc \in {"idle", "dialog"}

\* the _end_flash timer of Pane.flash_success fires in the event loop
end_flash(pane) ==
    /\ event_loop_runs
    /\ pane \in endflash
    /\ endflash' = endflash \ {pane}
    /\ progress' = [progress EXCEPT ![pane] = reset_progress(@)]
    /\ UNCHANGED <<fs, directory, listbox, curselection, current_items, row_names, external>>
    /\ UNCHANGED handlerVars
    /\ UNCHANGED sessionVars

-----------------------------------------------------------------------------
(* Other programs working on the same file system, while a handler runs, on
   the files of its plan *)

\* another program removes the file p
ExternalDelete(p) ==
    /\ external < MaxExternal
    /\ pc # "idle"
    /\ p \in Range(all_files)
    /\ is_file(fs, p)
    /\ fs' = unlink(fs, p)
    /\ external' = external + 1
    /\ UNCHANGED <<directory, listbox, curselection, current_items, row_names, progress, endflash>>
    /\ UNCHANGED handlerVars
    /\ UNCHANGED sessionVars

\* another program appends a byte to the file p
ExternalAppend(p) ==
    /\ external < MaxExternal
    /\ pc # "idle"
    /\ p \in Range(all_files)
    /\ is_file(fs, p)
    /\ fs' = [fs EXCEPT ![p].data = Append(@, 9)]
    /\ external' = external + 1
    /\ UNCHANGED <<directory, listbox, curselection, current_items, row_names, progress, endflash>>
    /\ UNCHANGED handlerVars
    /\ UNCHANGED sessionVars

-----------------------------------------------------------------------------
(* DualPaneFileManager: the Copy and Move handlers *)

\* the relative path without the single-directory case
rel_path_flat(f, fls, p) == <<name(p)>>

\* the relative path _copy_files / _move_files give the plan entry p
rel_path(f, fls, p) ==
    IF Len(fls) = 1 /\ is_dir(f, fls[1])
    THEN relative_to(p, parent(fls[1]))
    ELSE <<name(p)>>

dstPane == get_opposite(srcPane)
plan_len == Len(all_files)

\* the locals of _copy_with_progress, not in use
NoCopy ==
    /\ idx' = 0
    /\ src_f' = <<>>
    /\ dst_path' = <<>>
    /\ copied' = 0
    /\ total_size' = 0

\* an exception leaves the handler: Tk reports it and the event loop goes on.
\* filename is the path the OSError carries: the path of a failed open or
\* mkdir, None for the error of a read or a write on an open file
Raise(filename) ==
    /\ pc' = "idle"
    /\ outcome' = "raised"
    /\ failed' = failed \cup {idx}
    /\ NoCopy
    /\ log' = Append(log, [mode |-> mode, files |-> files, dst |-> directory[dstPane],
                           all_files |-> all_files,
                           targets |-> targets', failed |-> failed',
                           outcome |-> "raised", fs |-> fs,
                           filename |-> filename])
    /\ UNCHANGED <<mode, srcPane, files, all_files, fs0, completed, started,
                   refreshed, shown>>
    /\ UNCHANGED sessionVars

\* the precondition without the test of the destination directory
precondition_failed_no_dst(fls, dstdir) == fls = <<>>

\* `if not files or not dst.directory`
precondition_failed(fls, dstdir) == fls = <<>> \/ dstdir = None

\* copy_between / move_between up to the loop: get_selected_paths, the
\* precondition, _collect_all_files, the first _set_progress
copy_or_move(m, src) ==
    LET dst == get_opposite(src)
        fls == get_selected_paths(fs, directory[src], listbox[src], curselection[src])
        plan == collect_all_files(fs, fls)
    IN  /\ IF precondition_failed(fls, directory[dst])
           THEN /\ outcome' = "rejected"
                /\ UNCHANGED <<fs, directory, listbox, curselection, current_items, row_names,
                               progress, endflash, external>>
                /\ UNCHANGED <<pc, mode, srcPane, files, all_files, idx, src_f,
                               dst_path, copied, total_size, targets, fs0,
                               completed, failed, started, refreshed, shown, log>>
           ELSE /\ started' = TRUE
                /\ refreshed' = [p \in Panes |-> 0]
                /\ shown' = 0
                /\ UNCHANGED log
                /\ mode' = m
                /\ srcPane' = src
                /\ files' = fls
                /\ all_files' = plan
                /\ progress' = [progress EXCEPT ![dst] = set_progress(RatInt(0), Len(plan))]
                /\ pc' = "loop"
                /\ idx' = 1
                /\ targets' = <<>>
                /\ fs0' = fs
                /\ completed' = {}
                /\ failed' = {}
                /\ outcome' = "running"
                /\ UNCHANGED <<fs, directory, listbox, curselection, current_items, row_names,
                               endflash, external, src_f, dst_path, copied, total_size>>

\* the operator clicks Copy or Move of the pane src while nothing else runs:
\* Tk calls the handler at once
Begin(m, src) ==
    /\ pc = "idle"
    /\ ~started
    /\ copy_or_move(m, src)
    /\ UNCHANGED sessionVars

\* one loop iteration up to the open() of _copy_with_progress: the relative
\* path, the target, mkdir of its parent, getsize of the source
EntryStart ==
    LET p == all_files[idx]
        target == joinpath(directory[dstPane], rel_path(fs, files, p))
    IN  /\ pc = "loop"
        /\ idx <= plan_len
        /\ targets' = Append(targets, target)
        /\ IF mkdir_raises(fs, parent(target))
           THEN /\ Raise(CHOOSE a \in Ancestors(parent(target)) :
                                exists(fs, a) /\ ~is_dir(fs, a))
                /\ UNCHANGED fs
           ELSE /\ fs' = mkdir_parents(fs, parent(target))
                /\ dst_path' = target
                /\ total_size' = IF exists(fs, p) THEN getsize(fs, p) ELSE 0
                /\ copied' = 0
                /\ pc' = "open"
                /\ UNCHANGED <<mode, srcPane, files, all_files, idx, src_f, fs0,
                               completed, failed, outcome, started, refreshed,
                               shown, log>>
                /\ UNCHANGED sessionVars
        /\ UNCHANGED <<directory, listbox, curselection, current_items, row_names, progress,
                       endflash, external>>

\* the with statement opens the source for reading, then the target for
\* writing, which creates or truncates it
EntryOpen ==
    LET p == all_files[idx]
    IN  /\ pc = "open"
        /\ UNCHANGED targets
        /\ IF open_rb_raises(fs, p) \/ open_wb_raises(fs, dst_path)
           THEN /\ Raise(IF open_rb_raises(fs, p) THEN p ELSE dst_path)
                /\ UNCHANGED fs
           ELSE /\ fs' = open_wb(fs, dst_path)
                /\ src_f' = read_bytes(fs', p)
                /\ pc' = "read"
                /\ UNCHANGED <<mode, srcPane, files, all_files, idx, dst_path,
                               copied, total_size, fs0, completed, failed,
                               outcome, started, refreshed, shown, log>>
                /\ UNCHANGED sessionVars
        /\ UNCHANGED <<directory, listbox, curselection, current_items, row_names, progress,
                       endflash, external>>

\* the progress value _copy_with_progress shows after a chunk
chunk_progress(file_index, n_copied, size) ==
    IF size > 0 THEN Rat((file_index - 1) * size + n_copied, size)
    ELSE Rat(2 * file_index - 1, 2)

\* one turn of the while loop with a non-empty buffer
CopyChunk ==
    LET buf == SubSeq(src_f, 1, Min(chunk_size, Len(src_f)))
    IN  /\ pc = "read"
        /\ buf # <<>>
        /\ fs' = write(fs, dst_path, buf)
        /\ src_f' = SubSeq(src_f, Len(buf) + 1, Len(src_f))
        /\ copied' = copied + Len(buf)
        /\ progress' = [progress EXCEPT ![dstPane] =
               set_progress(chunk_progress(idx, copied', total_size), plan_len)]
        /\ UNCHANGED <<directory, listbox, curselection, current_items, row_names, endflash,
                       external, pc, mode, srcPane, files, all_files, idx,
                       dst_path, total_size, targets, fs0, completed, failed,
                       outcome, started, refreshed, shown, log>>
        /\ UNCHANGED sessionVars

\* fsrc.read or fdst.write raises (a device error, a full disk): the with
\* statement closes both files and the OSError, which names no path, leaves
\* _copy_with_progress; what was written stays in the target
ChunkError ==
    /\ pc = "read"
    /\ external < MaxExternal
    /\ external' = external + 1
    /\ UNCHANGED targets
    /\ Raise(None)
    /\ UNCHANGED <<fs, directory, listbox, curselection, current_items, row_names, progress,
                   endflash>>

\* the read that returns nothing: the files are closed, copystat, the last
\* _set_progress of _copy_with_progress; in _copy_files the iteration ends
CopyEnd ==
    /\ pc = "read"
    /\ src_f = <<>>
    /\ progress' = [progress EXCEPT ![dstPane] = set_progress(RatInt(idx), plan_len)]
    /\ IF mode = "move"
       THEN /\ pc' = "unlink"
            /\ UNCHANGED <<idx, completed, dst_path, copied, total_size>>
       ELSE /\ pc' = "loop"
            /\ idx' = idx + 1
            /\ completed' = completed \cup {idx}
            /\ dst_path' = <<>>
            /\ copied' = 0
            /\ total_size' = 0
    /\ UNCHANGED <<fs, directory, listbox, curselection, current_items, row_names, endflash,
                   external, mode, srcPane, files, all_files, src_f, targets,
                   fs0, failed, outcome, started, refreshed, shown, log>>
    /\ UNCHANGED sessionVars

\* _move_files: p.unlink() in its try block; a failure opens the modal
\* dialog of messagebox.showerror, the handler waits in it
Unlink ==
    LET p == all_files[idx]
    IN  /\ pc = "unlink"
        /\ IF unlink_raises(fs, p)
           THEN /\ failed' = failed \cup {idx}
                /\ shown' = shown + 1
                /\ pc' = "dialog"
                /\ UNCHANGED <<fs, completed, idx, dst_path, copied, total_size>>
           ELSE /\ fs' = unlink(fs, p)
                /\ completed' = completed \cup {idx}
                /\ pc' = "loop"
                /\ idx' = idx + 1
                /\ dst_path' = <<>>
                /\ copied' = 0
                /\ total_size' = 0
                /\ UNCHANGED <<failed, shown>>
        /\ UNCHANGED <<directory, listbox, curselection, current_items, row_names, progress,
                       endflash, external, mode, srcPane, files, all_files,
                       src_f, targets, fs0, outcome, started, refreshed, log>>
        /\ UNCHANGED sessionVars

\* a loop that a failed unlink ends
index_after_unlink_error_break(i, n) == n + 1

\* the index the loop of _move_files goes on with after a failed unlink
index_after_unlink_error(i, n) == i + 1

\* the operator closes the error dialog: showerror returns, the except
\* block ends and the loop goes on with the next entry
DismissError ==
    /\ pc = "dialog"
    /\ queue = <<>>
    /\ pc' = "loop"
    /\ idx' = index_after_unlink_error(idx, plan_len)
    /\ dst_path' = <<>>
    /\ copied' = 0
    /\ total_size' = 0
    /\ UNCHANGED <<fs, directory, listbox, curselection, current_items, row_names, progress,
                   endflash, external, mode, srcPane, files, all_files, src_f,
                   targets, fs0, completed, failed, outcome, started, refreshed,
                   shown, log>>
    /\ UNCHANGED sessionVars

\* after the loop: _reset_progress, the listing refresh (the source pane's
\* too in _move_files), flash_success
Finish ==
    LET reset == [Widgets EXCEPT !.bars[dstPane] = reset_progress(@)]
        srcListed == IF mode = "move"
                     THEN list_contents(reset, srcPane, directory[srcPane], fs)
                     ELSE reset
    IN  /\ pc = "loop"
        /\ idx > plan_len
        /\ SetWidgets(list_contents(srcListed, dstPane, directory[dstPane], fs))
        /\ refreshed' = [p \in Panes |->
               IF p = dstPane \/ (p = srcPane /\ mode = "move")
               THEN refreshed[p] + 1 ELSE refreshed[p]]
        /\ endflash' = endflash \cup {dstPane}
        /\ pc' = "idle"
        /\ outcome' = "finished"
        /\ NoCopy
        /\ log' = Append(log, [mode |-> mode, files |-> files, dst |-> directory[dstPane],
                               all_files |-> all_files,
                               targets |-> targets, failed |-> failed,
                               outcome |-> "finished", fs |-> fs,
                               filename |-> None])
        /\ UNCHANGED <<fs, directory, external, mode, srcPane, files, all_files,
                       targets, fs0, completed, failed, started, shown>>
        /\ UNCHANGED sessionVars

-----------------------------------------------------------------------------
Next ==
    \/ \E pane \in Panes, d \in PaneDirs : ask_directory(pane, d)
    \/ \E pane \in Panes : \E sel \in SUBSET DOMAIN listbox[pane] : Select(pane, sel)
    \/ \E pane \in Panes : clear_pane(pane)
    \/ \E pane \in Panes : end_flash(pane)
    \/ \E p \in DOMAIN fs : ExternalDelete(p)
    \/ \E p \in DOMAIN fs : ExternalAppend(p)
    \/ \E m \in {"copy", "move"}, src \in Panes : Begin(m, src)
    \/ EntryStart
    \/ EntryOpen
    \/ CopyChunk
    \/ ChunkError
    \/ CopyEnd
    \/ Unlink
    \/ DismissError
    \/ Finish

Spec == Init /\ [][Next]_vars

-----------------------------------------------------------------------------
(* A session: both panes are set up, the operator clicks Copy or Move more
   than once, also while a handler runs, and the timers of the panes fire *)

\* the trees a session starts from
SessionTrees == {InitTree(FALSE), InitTree(TRUE), LinkTree, TwinTree}

\* after ask_directory of /src in the left and of /dst or /src in the right
\* pane and a selection in the left one
InitSession ==
    /\ fs \in SessionTrees
    /\ \E d \in PaneDirs :
          directory = [p \in Panes |-> IF p = "left" THEN P_src ELSE d]
    /\ listbox = [p \in Panes |-> list_all_items(fs, directory[p])]
    /\ current_items = listbox
    /\ row_names = [p \in Panes |-> list_all_names(fs, directory[p])]
    /\ \E sel \in SUBSET DOMAIN listbox["left"] :
          curselection = [p \in Panes |-> IF p = "left" THEN sel ELSE {}]
    /\ progress = [p \in Panes |-> progress_after_listing(listbox[p])]
    /\ endflash = {}
    /\ pc = "idle"
    /\ mode = "none"
    /\ srcPane = "none"
    /\ files = <<>>
    /\ all_files = <<>>
    /\ idx = 0
    /\ src_f = <<>>
    /\ dst_path = <<>>
    /\ copied = 0
    /\ total_size = 0
    /\ targets = <<>>
    /\ fs0 = fs
    /\ completed = {}
    /\ failed = {}
    /\ outcome = "none"
    /\ started = FALSE
    /\ external = 0
    /\ refreshed = [p \in Panes |-> 0]
    /\ shown = 0
    /\ log = <<>>
    /\ auto_refresh_enabled = [p \in Panes |-> FALSE]
    /\ queue = <<>>
    /\ clicked = 0

\* the operator clicks the Copy or Move button of the pane src: the window
\* system queues the click; while a modal dialog holds the grab, the buttons
\* of the main window get no click
Click(m, src) ==
    /\ clicked < MaxClicks
    /\ pc # "dialog"
    /\ queue' = Append(queue, <<m, src>>)
    /\ clicked' = clicked + 1
    /\ UNCHANGED <<fs, directory, listbox, curselection, current_items, row_names, progress,
                   endflash, external, auto_refresh_enabled>>
    /\ UNCHANGED handlerVars

\* a handler that starts whatever else is running
handler_may_start_reentrant == TRUE

\* mainloop calls a button's command only from the event loop of the main
\* window, that is when no handler is running
handler_may_start == pc = "idle"

\* mainloop takes the oldest click and calls copy_between / move_between
Dispatch ==
    /\ handler_may_start
    /\ queue # <<>>
    /\ copy_or_move(Head(queue)[1], Head(queue)[2])
    /\ queue' = Tail(queue)
    /\ UNCHANGED <<auto_refresh_enabled, clicked>>

\* the event loop of the error dialog takes a click made on a button of the
\* main window before the dialog opened: the dialog holds the grab (Tk's
\* msgbox.tcl sets it before it waits), the button never gets the click
DropClick ==
    /\ pc = "dialog"
    /\ queue # <<>>
    /\ queue' = Tail(queue)
    /\ UNCHANGED <<fs, directory, listbox, curselection, current_items, row_names, progress,
                   endflash, external, auto_refresh_enabled, clicked>>
    /\ UNCHANGED handlerVars

\* the operator ticks or unticks the Auto-refresh box of a pane
ToggleAutoRefresh(pane) ==
    /\ pc = "idle"
    /\ auto_refresh_enabled' = [auto_refresh_enabled EXCEPT ![pane] = ~@]
    /\ UNCHANGED <<fs, directory, listbox, curselection, current_items, row_names, progress,
                   endflash, external, queue, clicked>>
    /\ UNCHANGED handlerVars

\* Pane._schedule_auto_refresh: the timer fires in the event loop and runs
\* last_command, which is list_contents since ask_directory
schedule_auto_refresh(pane) ==
    /\ event_loop_runs
    /\ auto_refresh_enabled[pane]
    /\ directory[pane] # None
    /\ SetWidgets(list_contents(Widgets, pane, directory[pane], fs))
    /\ UNCHANGED <<fs, directory, endflash, external>>
    /\ UNCHANGED handlerVars
    /\ UNCHANGED sessionVars

NextSession ==
    \/ \E m \in {"copy", "move"}, src \in Panes : Click(m, src)
    \/ Dispatch
    \/ DropClick
    \/ \E pane \in Panes : ToggleAutoRefresh(pane)
    \/ \E pane \in Panes : schedule_auto_refresh(pane)
    \/ \E pane \in Panes : end_flash(pane)
    \/ EntryStart
    \/ EntryOpen
    \/ CopyChunk
    \/ CopyEnd
    \/ Unlink
    \/ DismissError
    \/ Finish

SpecSession == InitSession /\ [][NextSession]_vars

-----------------------------------------------------------------------------
(* The listing and its way back: the operator lists a directory by either
   button, selects rows, and a command asks for the selected paths *)

\* the trees the listings are made from
ParseTrees == {InitTree(FALSE), SizedTree}

\* after ask_directory of /src in the left and of /dst in the right pane
InitParse ==
    /\ fs \in ParseTrees
    /\ directory = [p \in Panes |-> IF p = "left" THEN P_src ELSE P_dst]
    /\ listbox = [p \in Panes |-> list_all_items(fs, directory[p])]
    /\ current_items = listbox
    /\ row_names = [p \in Panes |-> list_all_names(fs, directory[p])]
    /\ curselection = [p \in Panes |-> {}]
    /\ progress = [p \in Panes |-> progress_after_listing(listbox[p])]
    /\ endflash = {}
    /\ pc = "idle"
    /\ mode = "none"
    /\ srcPane = "none"
    /\ files = <<>>
    /\ all_files = <<>>
    /\ idx = 0
    /\ src_f = <<>>
    /\ dst_path = <<>>
    /\ copied = 0
    /\ total_size = 0
    /\ targets = <<>>
    /\ fs0 = fs
    /\ completed = {}
    /\ failed = {}
    /\ outcome = "none"
    /\ started = FALSE
    /\ external = 0
    /\ refreshed = [p \in Panes |-> 0]
    /\ shown = 0
    /\ log = <<>>
    /\ auto_refresh_enabled = [p \in Panes |-> FALSE]
    /\ queue = <<>>
    /\ clicked = 0

\* Pane.list_all: the List All button
list_all(pane) ==
    /\ srcPane = "none"
    /\ SetWidgets(list_contents(Widgets, pane, directory[pane], fs))
    /\ UNCHANGED <<fs, directory, endflash, external>>
    /\ UNCHANGED handlerVars
    /\ UNCHANGED sessionVars

\* Pane.sort_files_size: the By Size button
sort_files_size(pane) ==
    LET rows == sort_files_size_items(fs, directory[pane])
    IN  /\ srcPane = "none"
        /\ directory[pane] # None
        /\ listbox' = [listbox EXCEPT ![pane] = rows]
        /\ curselection' = [curselection EXCEPT ![pane] = {}]
        /\ current_items' = [current_items EXCEPT ![pane] = rows]
        /\ row_names' = [row_names EXCEPT ![pane] = sort_files_size_names(fs, directory[pane])]
        /\ progress' = [progress EXCEPT ![pane] = progress_after_listing(rows)]
        /\ UNCHANGED <<fs, directory, endflash, external>>
        /\ UNCHANGED handlerVars
        /\ UNCHANGED sessionVars

\* a command of the pane calls Pane.get_selected_paths
selected_paths(pane) ==
    /\ srcPane = "none"
    /\ srcPane' = pane
    /\ files' = get_selected_paths(fs, directory[pane], listbox[pane], curselection[pane])
    /\ UNCHANGED <<fs, directory, listbox, curselection, current_items, row_names,
                   progress, endflash, external>>
    /\ UNCHANGED <<pc, mode, all_files, idx, src_f, dst_path, copied, total_size,
                   targets, fs0, completed, failed, outcome, started, refreshed,
                   shown, log>>
    /\ UNCHANGED sessionVars

NextParse ==
    \/ \E pane \in Panes : list_all(pane)
    \/ \E pane \in Panes : sort_files_size(pane)
    \/ \E pane \in Panes : \E sel \in SUBSET DOMAIN listbox[pane] : Select(pane, sel)
    \/ \E pane \in Panes : selected_paths(pane)

SpecParse == InitParse /\ [][NextParse]_vars

-----------------------------------------------------------------------------
(* Properties *)

\* the handler that passed its precondition has returned or raised
Ended == pc = "idle" /\ outcome \in {"finished", "raised"}

\* the regular files below the directory d in the file system f
RegularFilesUnder(f, d) == {p \in DOMAIN f : p # d /\ IsPrefix(d, p) /\ f[p].kind = "file"}

\* everything below d in f is a directory or a regular file
OnlyFilesAndDirs(f, d) ==
    \A p \in DOMAIN f : IsPrefix(d, p) => f[p].kind \in {"file", "dir"}

dstRoot == directory[dstPane]

\* C1: a single file's failure never aborts the batch: when a Copy or Move
\* has ended and the copy of exactly one plan entry failed, that entry is the
\* only failed one and the other n-1 entries succeeded.
C1_FailureIsolation ==
    (Ended /\ Cardinality(failed) = 1)
        => Cardinality(completed) = plan_len - 1

\* C2: after a Move in which every copy and every deletion succeeded (and no
\* other program touched the files), no selected source path exists any more
\* and every destination path holds the original content of its source.
C2_MoveIsCopyDelete ==
    (Ended /\ outcome = "finished" /\ mode = "move" /\ failed = {} /\ external = 0)
        => /\ \A i \in DOMAIN files : ~exists(fs, files[i])
           /\ \A i \in DOMAIN all_files :
                 /\ ~exists(fs, all_files[i])
                 /\ is_file(fs, targets[i])
                 /\ fs[targets[i]].data = fs0[all_files[i]].data

\* C3: when the selection is exactly one directory holding k regular files
\* at any depth, the plan has exactly k entries, those files, and every
\* destination is the destination root joined with the file's path relative
\* to the directory's parent, so that the directory's own name is made a
\* sub-directory of the destination.
C3_SingleDirectory ==
    (started /\ Len(files) = 1 /\ is_dir(fs0, files[1])
             /\ OnlyFilesAndDirs(fs0, files[1]))
        => LET D == files[1]
           IN  /\ Len(all_files) = Cardinality(RegularFilesUnder(fs0, D))
               /\ Range(all_files) = RegularFilesUnder(fs0, D)
               /\ \A i \in DOMAIN targets :
                     /\ targets[i] = joinpath(dstRoot, relative_to(all_files[i], parent(D)))
                     /\ IsPrefix(Append(dstRoot, name(D)), targets[i])
                     /\ pc # "idle" => is_dir(fs, Append(dstRoot, name(D)))

\* C3 witness: a single selected directory with files at two depths, both
\* given their destination
C3_Witness ==
    /\ started
    /\ Len(files) = 1 /\ is_dir(fs0, files[1])
    /\ Len(all_files) = 2
    /\ Len(targets) = 2
    /\ \E i, j \in DOMAIN all_files : Len(all_files[i]) < Len(all_files[j])
    /\ outcome = "finished"

\* C4: for a non-empty selection of regular files only, the plan is the
\* selection, entry for entry and in its order, and every destination is the
\* destination root joined with the file's base name.
C4_FilesOnly ==
    (started /\ files # <<>> /\ \A i \in DOMAIN files : is_file(fs0, files[i]))
        => /\ all_files = files
           /\ \A i \in DOMAIN targets :
                 targets[i] = Append(dstRoot, name(all_files[i]))

\* C4 witness: two selected files, both given their destination
C4_Witness ==
    /\ started
    /\ Len(files) = 2
    /\ \A i \in DOMAIN files : is_file(fs0, files[i])
    /\ Len(targets) = 2
    /\ outcome = "finished"

\* C5: in a selection of several entries, a file below a selected directory
\* keeps its path relative to that directory's parent.
C5_MixedKeepsStructure ==
    (started /\ Len(files) > 1)
        => \A i \in DOMAIN targets :
              \A k \in DOMAIN files :
                 (is_dir(fs0, files[k]) /\ IsPrefix(files[k], all_files[i]))
                    => targets[i] =
                         joinpath(dstRoot, relative_to(all_files[i], parent(files[k])))

\* C6: when a Copy or Move that passed its precondition has ended, the plan
\* entries that succeeded plus those recorded as failed are the whole plan.
C6_OutcomeAccounting ==
    Ended => Cardinality(completed) + Cardinality(failed) = plan_len

\* C7: in every state the value of each pane's progress bar is at least 0
\* and at most the bar's maximum.
C7_ProgressWithinMaximum ==
    \A pane \in Panes :
        /\ RatLe(RatInt(0), progress[pane].value)
        /\ RatLe(progress[pane].value, RatInt(progress[pane].maximum))

\* C7 witness: the last file of the plan grew after its size was taken, more
\* bytes were copied than that size, and the bar stands at its maximum
C7_Witness ==
    /\ pc = "read"
    /\ idx = plan_len
    /\ total_size > 0
    /\ copied > total_size
    /\ progress[dstPane].value = RatInt(progress[dstPane].maximum)

\* C8: on every path by which a started Copy or Move ends, the destination
\* pane's progress value is back at 0.
C8_ProgressResetAtEnd ==
    Ended => progress[dstPane].value = RatInt(0)

\* C9: while entry i of the plan is being processed (no other program
\* touching the files), the progress value is at least i-1 and stays below i
\* until the entry is fully copied and, in a Move, its source is removed.
C9_ProgressPerEntry ==
    (pc \in {"open", "read", "unlink"} /\ external = 0)
        => /\ RatLe(RatInt(idx - 1), progress[dstPane].value)
           /\ RatLt(progress[dstPane].value, RatInt(idx))

\* the precondition of Copy/Move fails for the acting pane src
PreconditionFails(src) ==
    \/ curselection[src] = {}
    \/ directory[src] = None
    \/ directory[get_opposite(src)] = None

\* C10: a Copy or Move invoked with an empty selection, or with the acting
\* or the sibling pane without directory, does no work: no file or directory
\* is created, written or deleted, no pane's progress, listing, selection or
\* directory changes, and no handler is left running.
C10_PreconditionRejection ==
    [][(\E src \in Panes : PreconditionFails(src)
                           /\ \E m \in {"copy", "move"} : Begin(m, src))
          => /\ UNCHANGED <<fs, progress, listbox, current_items, row_names, curselection,
                            directory, endflash>>
             /\ pc' = "idle"
             /\ outcome' = "rejected"]_vars

\* C10 witness: a Copy or Move was rejected while one pane has a selection
\* and its sibling has no directory
C10_Witness ==
    /\ outcome = "rejected"
    /\ \E src \in Panes : curselection[src] # {} /\ directory[get_opposite(src)] = None

\* C11: when a Copy or Move that passed its precondition has ended, with or
\* without failures, the listing of each of the two panes, source and
\* destination, has been refreshed from disk exactly once by it.
C11_BothListingsRefreshedOnce ==
    Ended => \A pane \in Panes : refreshed[pane] = 1

\* C12: the operator is never interrupted by a file's failure while the
\* batch is running: as long as the handler has not ended, it has shown no
\* error dialog.
C12_NoInterruptionPerFile ==
    (started /\ pc # "idle") => shown = 0

\* C13: in a Move (no other program touching the files) the removal of a
\* copied file's source may fail: the failure is recorded for that entry and
\* no other, the file is then at both its source and its destination, and
\* every other entry of the plan is still copied and its source removed.
C13_UnlinkFailureIsolated ==
    (started /\ mode = "move" /\ external = 0)
        => /\ outcome # "raised"
           /\ \A i \in failed :
                 /\ fs0[all_files[i]].locked
                 /\ is_file(fs, all_files[i])
                 /\ is_file(fs, targets[i])
           /\ Ended =>
                 /\ failed = {i \in DOMAIN all_files : fs0[all_files[i]].locked}
                 /\ \A j \in DOMAIN all_files \ failed :
                       /\ j \in completed
                       /\ ~exists(fs, all_files[j])
                       /\ targets[j] \notin Range(all_files) => is_file(fs, targets[j])

\* C13 witness: a Move into another directory has ended, the removal of one
\* entry's source failed, and an entry after it was copied and removed
C13_Witness ==
    /\ Ended /\ mode = "move" /\ external = 0
    /\ directory[srcPane] # directory[dstPane]
    /\ \E i \in failed : \E j \in completed :
          /\ i < j
          /\ is_file(fs, all_files[i]) /\ is_file(fs, targets[i])
          /\ ~exists(fs, all_files[j]) /\ is_file(fs, targets[j])

\* C14: while a Copy or Move is in flight, the progress value and maximum
\* of its destination pane are changed by steps of that transfer only: not
\* by the auto-refresh timer, not by the end-of-flash reset of an earlier
\* transfer, not by any other listing refresh.
C14_ProgressOnlyByTransfer ==
    [][(pc # "idle" /\ progress'[dstPane] # progress[dstPane])
          => (CopyChunk \/ CopyEnd \/ Finish)]_vars

\* C15: while a transfer is in flight no other transfer starts: the handler
\* in flight, its selection and its plan stay the same, its steps are taken
\* one after the other, and a Copy or Move clicked meanwhile waits in the
\* queue until the transfer has ended, or is discarded by the error dialog.
C15_OneTransferAtATime ==
    [][pc # "idle"
          => /\ <<mode, srcPane, files, all_files, fs0>>' =
                   <<mode, srcPane, files, all_files, fs0>>
             /\ idx' \in {idx, idx + 1, 0}
             /\ outcome' # "rejected"
             /\ \/ queue' = queue
                \/ Len(queue') = Len(queue) + 1 /\ Front(queue') = queue
                \/ pc = "dialog" /\ queue' = Tail(queue)]_vars

\* C15 witness: a transfer is in flight and a Copy or Move for the same
\* destination pane, clicked meanwhile, waits in the queue
C15_Witness ==
    /\ pc \in {"open", "read", "unlink"}
    /\ queue # <<>>
    /\ get_opposite(Head(queue)[2]) = dstPane
    /\ Len(log) = 0

\* C16: a Copy or Move that passed its precondition ends only by completing:
\* once it has started, the handler is not left before its end-of-batch
\* steps (progress reset, listing refresh) have run, whatever error a file of
\* the plan gives.
C16_EndsOnlyByCompleting ==
    (started /\ pc = "idle") => outcome = "finished" /\ refreshed[dstPane] >= 1

\* C17: a Copy or Move of a selection that is not empty but has no file
\* anywhere below it has an empty plan and is a no-op: no entry succeeds, no
\* entry fails, no error is raised or shown, and no file or directory is
\* written, created or deleted.
C17_EmptyPlanNoOp ==
    (started /\ files # <<>>
             /\ \A i \in DOMAIN files :
                    is_dir(fs0, files[i]) /\ RegularFilesUnder(fs0, files[i]) = {})
        => /\ all_files = <<>>
           /\ completed = {} /\ failed = {}
           /\ outcome # "raised" /\ shown = 0
           /\ fs = fs0

\* C17 witness: a Copy or Move of a folder without any file has ended
C17_Witness ==
    /\ Ended
    /\ files # <<>>
    /\ \A i \in DOMAIN files : is_dir(fs0, files[i])
    /\ all_files = <<>>
    /\ outcome = "finished"

\* the directories at or below d in the file system f that have no regular
\* file anywhere below them
EmptyDirsUnder(f, d) ==
    {e \in DOMAIN f : /\ IsPrefix(d, e)
                      /\ f[e].kind = "dir"
                      /\ RegularFilesUnder(f, e) = {}}

\* C18: when a Copy or Move of one selected directory has finished, every
\* directory at or below it that has no file anywhere below it exists under
\* the destination root, at its path relative to the selected directory's
\* parent.
C18_EmptyDirectoryCreated ==
    (Ended /\ outcome = "finished" /\ Len(files) = 1 /\ is_dir(fs0, files[1]))
        => \A e \in EmptyDirsUnder(fs0, files[1]) :
              is_dir(fs, joinpath(dstRoot, relative_to(e, parent(files[1]))))

\* C19: every entry of the plan is a regular file at or below a selected
\* entry: neither a directory nor a symbolic link met while walking a
\* selected directory is a plan entry.
C19_PlanOfRegularFiles ==
    (started /\ pc # "idle")
        => \A i \in DOMAIN all_files :
              /\ fs0[all_files[i]].kind = "file"
              /\ \E k \in DOMAIN files : IsPrefix(files[k], all_files[i])

\* the run a of the log and the later run b are the same Copy: same
\* selection, same destination directory
SameCopy(a, b) ==
    /\ a < b
    /\ log[a].mode = "copy" /\ log[b].mode = "copy"
    /\ log[a].files = log[b].files
    /\ log[a].dst = log[b].dst

\* C20: when the same Copy has run twice, no entry failed in either run, and
\* every destination file holds after the second run the bytes it held after
\* the first run, which are the bytes of its source.
C20_CopyIdempotent ==
    \A a, b \in DOMAIN log :
        SameCopy(a, b)
            => /\ log[a].outcome = "finished" /\ log[a].failed = {}
               /\ log[b].outcome = "finished" /\ log[b].failed = {}
               /\ log[a].targets = log[b].targets
               /\ \A t \in Range(log[b].targets) :
                     /\ is_file(log[a].fs, t) /\ is_file(log[b].fs, t)
                     /\ read_bytes(log[b].fs, t) = read_bytes(log[a].fs, t)
               /\ \A i \in DOMAIN log[b].targets :
                     read_bytes(log[b].fs, log[b].targets[i])
                         = read_bytes(log[b].fs, log[b].all_files[i])

\* C21: a Move is done file by file as a copy followed by a deletion: the
\* source of a plan entry disappears only in the step that follows the end of
\* that entry's copy, the copy of an entry begins only when the deletion of
\* every entry before it has been attempted, and no step of a Move renames or
\* removes a directory.
C21_CopyThenDelete ==
    [][(started /\ mode = "move" /\ pc # "idle" /\ external' = external)
          => /\ \A p \in DOMAIN fs :
                   fs[p].kind = "dir" => (p \in DOMAIN fs' /\ fs'[p].kind = "dir")
             /\ \A p \in DOMAIN fs \ DOMAIN fs' :
                   /\ pc = "unlink"
                   /\ src_f = <<>>
                   /\ p = all_files[idx]
                   /\ is_file(fs, targets[idx])
             /\ pc' = "open" =>
                   \A j \in 1..(idx' - 1) : j \in completed' \cup failed']_vars

\* C21 witness: a Move of a folder has ended, its two files were copied and
\* then removed, and the folder and its sub-folder are still at the source
C21_Witness ==
    /\ Ended /\ mode = "move" /\ external = 0
    /\ Cardinality(completed) = 2
    /\ Len(files) = 1 /\ is_dir(fs, files[1])
    /\ \A i \in DOMAIN all_files :
          /\ ~exists(fs, all_files[i])
          /\ is_dir(fs, parent(all_files[i]))
          /\ is_file(fs, targets[i])

\* C22: while the destination file of a plan entry is about to be opened
\* and while the entry's bytes are written, the parent of the destination
\* path and every directory above it exist; before the open no byte of the
\* entry has been written.
C22_ParentDirectoryFirst ==
    (pc \in {"open", "read"})
        => /\ \A a \in Ancestors(parent(dst_path)) : is_dir(fs, a)
           /\ dst_path = targets[idx]
           /\ pc = "open" => copied = 0

\* C22 witness: an entry is about to be opened whose destination lies two
\* directories below the destination root, neither of which existed when the
\* transfer began
C22_Witness ==
    /\ pc = "open"
    /\ Len(dst_path) = Len(dstRoot) + 3
    /\ ~exists(fs0, parent(dst_path))
    /\ ~exists(fs0, parent(parent(dst_path)))
    /\ is_dir(fs, parent(dst_path))

\* C23: when the source of entry i is read as zero-length, the entry gives
\* one progress update and no more: no step of the program changes the
\* destination pane's progress until the step that ends the entry, which sets
\* the value to i and leaves a zero-length destination file.
C23_ZeroLengthFile ==
    [][(pc = "read" /\ copied = 0 /\ src_f = <<>> /\ external' = 0)
          => \/ progress' = progress /\ pc' = "read"
             \/ /\ progress'[dstPane] = set_progress(RatInt(idx), plan_len)
                /\ progress'[dstPane].value = RatInt(idx)
                /\ pc' # "read"
                /\ is_file(fs', targets[idx])
                /\ getsize(fs', targets[idx]) = 0]_vars

\* C23 witness: the empty file /src/data/a was copied into another directory
\* and its destination is a zero-length file
C23_Witness ==
    /\ started /\ external = 0
    /\ \E i \in completed :
          /\ getsize(fs0, all_files[i]) = 0
          /\ targets[i] # all_files[i]
          /\ is_file(fs, targets[i])
          /\ getsize(fs, targets[i]) = 0
          /\ RatLe(RatInt(i), progress[dstPane].value) \/ pc = "idle"

\* C24: when a read or a write fails while entry i is copied, the copy of
\* that entry fails with an error that names the source or the target path,
\* the target stays as far as it was written (a prefix of the source, not
\* removed), the source is not deleted, and the entry counts as failed and
\* not as completed.
C24_ReadWriteError ==
    [][(pc = "read" /\ pc' = "idle" /\ outcome' = "raised")
          => /\ Last(log').filename \in {all_files[idx], targets[idx]}
             /\ fs' = fs
             /\ is_file(fs', targets[idx])
             /\ idx \in failed' /\ idx \notin completed']_vars

\* C25: the plan entries of a transfer get pairwise distinct target paths,
\* so no entry is written over the file an earlier entry of the same batch
\* was copied to (also for a selection of several rows whose folders hold
\* files of equal base names).
C25_DistinctTargets ==
    started => \A i, j \in DOMAIN targets : i # j => targets[i] # targets[j]

\* the file p of the file system f holds what it held when the handler began
HoldsOriginal(f, p, orig) ==
    is_file(f, p) /\ read_bytes(f, p) = read_bytes(fs0, orig)

\* C26: a Move never loses data: in every state while it runs and after it,
\* with no other program touching the files, the content each planned file
\* had at the start is in the source file or in its target, also when both
\* panes show the same directory.
C26_MoveKeepsContent ==
    (started /\ mode = "move" /\ external = 0)
        => \A i \in DOMAIN all_files :
              \/ HoldsOriginal(fs, all_files[i], all_files[i])
              \/ i \in DOMAIN targets /\ HoldsOriginal(fs, targets[i], all_files[i])

\* C27: a Copy changes no source file: in every state while it runs and
\* after it, with no other program touching the files, each planned file is
\* what it was at the start, for every pair of pane directories.
C27_CopyKeepsSource ==
    (started /\ mode = "copy" /\ external = 0)
        => \A i \in DOMAIN all_files :
              all_files[i] \in DOMAIN fs /\ fs[all_files[i]] = fs0[all_files[i]]

\* C28: a step of a Move removes a planned file only when that file is the
\* entry at hand, its copy has read the source to the end without an error
\* and its target is there; the entry then counts as completed, and a file
\* whose copy failed or whose turn never came is removed by no step.
C28_DeleteOnlyAfterOwnCopy ==
    [][(started /\ mode = "move" /\ external' = external)
          => \A i \in DOMAIN all_files :
                (exists(fs, all_files[i]) /\ ~exists(fs', all_files[i]))
                   => /\ pc = "unlink" /\ i = idx
                      /\ src_f = <<>>
                      /\ i \notin failed'
                      /\ i \in completed'
                      /\ outcome' = "running"]_vars

\* C28 witness: a Move in which the first entry was copied and removed and
\* the read of the second failed: the second source is still there
C28_Witness ==
    /\ Ended /\ mode = "move" /\ outcome = "raised"
    /\ Last(log).filename = None
    /\ \E i \in completed : ~exists(fs, log[Len(log)].all_files[i])
    /\ \E j \in failed :
          /\ is_file(fs, log[Len(log)].all_files[j])
          /\ fs[log[Len(log)].all_files[j]] = fs0[log[Len(log)].all_files[j]]
          /\ log[Len(log)].targets[j] # log[Len(log)].all_files[j]

\* C29: while a transfer runs, from the first _set_progress(0, n) to the
\* reset at its end, no step lowers the value of the destination pane's
\* progress bar: not from chunk to chunk, not from one entry to the next,
\* not for a source measured as empty, not for a source that gives more
\* bytes than were measured.
C29_ProgressMonotone ==
    [][(started /\ pc \notin {"idle"} /\ outcome' # "finished")
          => RatLe(progress[dstPane].value, progress'[dstPane].value)]_vars

\* C30: the rows of a listing lead back to the entries they were made from:
\* for the rows of List All ('name', 'name/') and of By Size
\* ('name - N bytes') alike, get_selected_paths gives, for the selected
\* rows in order, the directory joined with the entry's own name.
C30_RowsRoundTrip ==
    [][(srcPane = "none" /\ srcPane' \in Panes /\ ~started')
          => files' = [i \in 1..Cardinality(curselection[srcPane']) |->
                          Append(directory[srcPane'],
                                 row_names[srcPane'][Ascending(curselection[srcPane'])[i]])]]_vars

=============================================================================
